---- MODULE Spec2Model ----
(***************************************************************************)
(* Model of tools/stress_test.rs: the orchestrator run_stress_test, its    *)
(* publisher, subscriber and monitor tasks, the shared atomic counters,    *)
(* the latency tracker and the construction of StressTestResults.          *)
(*                                                                         *)
(* Time is a global monotonic clock `now` in microseconds.  A task that    *)
(* awaits (publish, sleep, interval.tick) holds a wake-up time; the clock  *)
(* advances to the next wake-up time only when no task can run.            *)
(***************************************************************************)
EXTENDS Integers, Sequences, FiniteSets, TLC

VARIABLES
    cfg,                \* Args: publishers, subscribers, rate, duration, message_size, format
    now,                \* monotonic clock, microseconds
    mainPc,             \* position of main / run_stress_test
    serializer,         \* Serializer chosen by main
    start_time,         \* run_stress_test: start_time
    messages_sent,      \* AtomicU64
    messages_received,  \* AtomicU64
    latency_tracker,    \* samples recorded so far (kept sorted)
    pubPc, pubTopic, interval, start, sequence, pubWake, pubOutcome,
    lastMessage,        \* sequence number carried by the last message a publisher built
    attempts, successes,\* publish calls made / returned Ok, per publisher
    subPc, subTopic, subStart, subWake,
    stopElapsed,        \* local elapsed time at which a worker left its loop
    monPc, monNext, monTicks, last_sent, last_received, monSent,
    progress,           \* progress lines printed by the monitor
    joinedAt,           \* clock value when the worker joins / the monitor join completed
    results             \* StressTestResults, or NoResults

vars == <<cfg, now, mainPc, serializer, start_time, messages_sent, messages_received,
          latency_tracker, pubPc, pubTopic, interval, start, sequence, pubWake,
          pubOutcome, lastMessage, attempts, successes, subPc, subTopic, subStart,
          subWake, stopElapsed, monPc, monNext, monTicks, last_sent, last_received,
          monSent, progress, joinedAt, results>>

mainVars == <<mainPc, serializer, start_time, joinedAt, results>>
pubVars == <<pubPc, pubTopic, interval, start, sequence, pubWake, pubOutcome,
             lastMessage, attempts, successes>>
subVars == <<subPc, subTopic, subStart, subWake>>
monVars == <<monPc, monNext, monTicks, last_sent, last_received, monSent, progress>>

----------------------------------------------------------------------------
\* Program constants

MICROS_PER_SEC == 1000000
MONITOR_PERIOD_SECS == 5
SUBSCRIBER_SLEEP_MICROS == 1000
TOPIC_COUNT == 10
LATENCY_BASE == 1
LATENCY_SPAN == 49
P95_FACTOR_PERCENT == 95

\* Bounds of the model

MaxPublishers == 2
MaxSubscribers == 2
MaxRate == 3
\* rand::random::<f64>() is drawn from {0/DrawSteps, ..., (DrawSteps-1)/DrawSteps}
DrawSteps == 2
\* time an awaited publish call may take, microseconds (0 is always possible too)
PublishLatency == 250000
\* upper bound, microseconds, of the time main spends between reading start_time
\* and reading start_time.elapsed() beyond the waits on its tasks
MaxOverhead == 2

\* most workers of one kind in the runs that only look at the topic names
MaxTopicWorkers == 12

NoResults == [kind |-> "none"]
\* an Instant not taken yet
NoTime == 0 - 1

Secs(n) == n * MICROS_PER_SEC

----------------------------------------------------------------------------
\* Configurations

\* runs in whole seconds, as main builds them: Duration::from_secs(args.duration)
SecondConfigs ==
    { [publishers |-> p, subscribers |-> 0, rate |-> r, duration |-> Secs(d),
       message_size |-> "small", format |-> "cdr"] :
        p \in 0..1, r \in 1..MaxRate, d \in {1, 2} }
    \cup
    { [publishers |-> p, subscribers |-> 0, rate |-> 1, duration |-> Secs(d),
       message_size |-> "medium", format |-> "json"] :
        p \in 0..1, d \in {5, 10} }

\* short runs of run_stress_test with subscribers (one subscriber tick per millisecond)
MilliConfigs ==
    { [publishers |-> p, subscribers |-> s, rate |-> 1000, duration |-> 2000,
       message_size |-> "large", format |-> "cdr"] :
        p \in 0..MaxPublishers, s \in 0..1 }
    \cup
    { [publishers |-> p, subscribers |-> s, rate |-> 1000, duration |-> 2000,
       message_size |-> "large", format |-> "cdr"] :
        p \in 0..1, s \in 0..MaxSubscribers }

\* runs with enough workers for two indices to meet on one topic
TopicConfigs ==
    { [publishers |-> p, subscribers |-> s, rate |-> 1000, duration |-> 2000,
       message_size |-> "small", format |-> "cdr"] :
        p \in 0..MaxTopicWorkers, s \in 0..MaxTopicWorkers }

\* command lines with a value outside the documented ranges
InvalidConfigs ==
    { [publishers |-> 1, subscribers |-> 1, rate |-> 0, duration |-> 2000,
       message_size |-> "small", format |-> "cdr"],
      [publishers |-> 0, subscribers |-> 1, rate |-> 0, duration |-> 2000,
       message_size |-> "small", format |-> "cdr"],
      [publishers |-> 1, subscribers |-> 1, rate |-> 1000, duration |-> 2000,
       message_size |-> "huge", format |-> "cdr"],
      [publishers |-> 1, subscribers |-> 1, rate |-> 1000, duration |-> 2000,
       message_size |-> "small", format |-> "xml"] }

Configs == SecondConfigs \cup MilliConfigs \cup InvalidConfigs

Publishers == 0..(cfg.publishers - 1)
Subscribers == 0..(cfg.subscribers - 1)

----------------------------------------------------------------------------
\* Helpers

Min(S) == CHOOSE x \in S : \A y \in S : x <= y

DecimalDigits == <<"0", "1", "2", "3", "4", "5", "6", "7", "8", "9">>

\* the {} of format! applied to an unsigned integer: its decimal digits, no padding
RECURSIVE Decimal(_)
Decimal(n) ==
    IF n < Len(DecimalDigits)
    THEN <<DecimalDigits[n + 1]>>
    ELSE Decimal(n \div Len(DecimalDigits)) \o <<DecimalDigits[(n % Len(DecimalDigits)) + 1]>>

\* the topic name built from the worker index itself
TopicByIndex(i) == <<"stress_topic_">> \o Decimal(i)

\* format!("stress_topic_{}", i % 10)
Topic(i) == <<"stress_topic_">> \o Decimal(i % TOPIC_COUNT)

\* Duration::from_micros(1_000_000 / rate_hz as u64); rate_hz > 0
Interval(rate_hz) == MICROS_PER_SEC \div rate_hz

\* start.elapsed()
Elapsed(t0) == now - t0

----------------------------------------------------------------------------
\* the state before main runs, whatever the configuration
Fresh ==
    /\ now = 0
    /\ mainPc = "main"
    /\ serializer = "unset"
    /\ start_time = NoTime
    /\ messages_sent = 0
    /\ messages_received = 0
    /\ latency_tracker = <<>>
    /\ pubPc = [p \in Publishers |-> "unspawned"]
    /\ pubTopic = [p \in Publishers |-> <<>>]
    /\ interval = [p \in Publishers |-> 0]
    /\ start = [p \in Publishers |-> NoTime]
    /\ sequence = [p \in Publishers |-> 0]
    /\ pubWake = [p \in Publishers |-> NoTime]
    /\ pubOutcome = [p \in Publishers |-> "none"]
    /\ lastMessage = [p \in Publishers |-> <<>>]
    /\ attempts = [p \in Publishers |-> 0]
    /\ successes = [p \in Publishers |-> 0]
    /\ subPc = [s \in Subscribers |-> "unspawned"]
    /\ subTopic = [s \in Subscribers |-> <<>>]
    /\ subStart = [s \in Subscribers |-> NoTime]
    /\ subWake = [s \in Subscribers |-> NoTime]
    /\ stopElapsed = [pub |-> [p \in Publishers |-> NoTime],
                      sub |-> [s \in Subscribers |-> NoTime]]
    /\ monPc = "unspawned"
    /\ monNext = NoTime
    /\ monTicks = 0
    /\ last_sent = 0
    /\ last_received = 0
    /\ monSent = 0
    /\ progress = <<>>
    /\ joinedAt = [workers |-> NoTime, monitor |-> NoTime]
    /\ results = NoResults

Init ==
    /\ cfg \in Configs
    /\ Fresh

----------------------------------------------------------------------------
\* main and run_stress_test: start, spawn loops

\* match args.format.as_str() { "json" => Serializer::Json, _ => Serializer::Cdr }
SelectSerializer(format) == IF format = "json" THEN "Json" ELSE "Cdr"

Unspawned(pcs) == {t \in DOMAIN pcs : pcs[t] = "unspawned"}

Main ==
    /\ mainPc = "main"
    /\ serializer' = SelectSerializer(cfg.format)
    /\ start_time' = now
    /\ mainPc' = "spawn"
    /\ UNCHANGED <<cfg, now, messages_sent, messages_received, latency_tracker,
                   pubVars, subVars, stopElapsed, monVars, joinedAt, results>>

\* one iteration of `for i in 0..num_publishers`; 1_000_000 / rate_hz panics
\* (division by zero) before the task is spawned when rate_hz = 0
SpawnPublisher ==
    /\ mainPc = "spawn"
    /\ Unspawned(pubPc) # {}
    /\ LET i == Min(Unspawned(pubPc)) IN
        IF cfg.rate = 0
        THEN /\ mainPc' = "panicked"
             /\ UNCHANGED <<pubPc, pubTopic, interval>>
        ELSE /\ pubTopic' = [pubTopic EXCEPT ![i] = Topic(i)]
             /\ interval' = [interval EXCEPT ![i] = Interval(cfg.rate)]
             /\ pubPc' = [pubPc EXCEPT ![i] = "ready"]
             /\ UNCHANGED mainPc
    /\ UNCHANGED <<cfg, now, serializer, start_time, messages_sent, messages_received,
                   latency_tracker, start, sequence, pubWake, pubOutcome, lastMessage,
                   attempts, successes, subVars, stopElapsed, monVars, joinedAt, results>>

\* one iteration of `for i in 0..num_subscribers`
SpawnSubscriber ==
    /\ mainPc = "spawn"
    /\ Unspawned(pubPc) = {}
    /\ Unspawned(subPc) # {}
    /\ LET i == Min(Unspawned(subPc)) IN
        /\ subTopic' = [subTopic EXCEPT ![i] = Topic(i)]
        /\ subPc' = [subPc EXCEPT ![i] = "ready"]
    /\ UNCHANGED <<cfg, now, mainVars, messages_sent, messages_received, latency_tracker,
                   pubVars, subStart, subWake, stopElapsed, monVars>>

SpawnMonitor ==
    /\ mainPc = "spawn"
    /\ Unspawned(pubPc) = {}
    /\ Unspawned(subPc) = {}
    /\ monPc' = "ready"
    /\ mainPc' = "join_publishers"
    /\ UNCHANGED <<cfg, now, serializer, start_time, joinedAt, results, messages_sent,
                   messages_received, latency_tracker, pubVars, subVars, stopElapsed,
                   monNext, monTicks, last_sent, last_received, monSent, progress>>

\* The spawn phase alone (lines 138-198): the topic names are fixed there and no
\* task changes them afterwards.
InitTopics ==
    /\ cfg \in TopicConfigs
    /\ Fresh

NextTopics ==
    \/ Main
    \/ SpawnPublisher
    \/ SpawnSubscriber
    \/ SpawnMonitor

SpecTopics == InitTopics /\ [][NextTopics]_vars

----------------------------------------------------------------------------
\* publisher task

PublishOutcomes == {"ok", "err"}
PublishLatencies == {0, PublishLatency}

\* the loop test with the comparison off by one
LoopContinuesInclusive(t0) == Elapsed(t0) <= cfg.duration

\* while start.elapsed() < duration
LoopContinues(t0) == Elapsed(t0) < cfg.duration

\* the counter bumped whatever publish returned
SentAfterPublishCountsFailures(outcome, sent) == sent + 1

\* if publisher.publish(&message).await.is_ok() { messages_sent.fetch_add(1, ..) }
SentAfterPublish(outcome, sent) == IF outcome = "ok" THEN sent + 1 ELSE sent

\* the sequence counter never advanced
SequenceAfterPublishStuck(outcome, seq) == seq

\* if publisher.publish(&message).await.is_ok() { sequence += 1 }
SequenceAfterPublish(outcome, seq) == IF outcome = "ok" THEN seq + 1 ELSE seq

\* a failed publish ends the task (an Err propagated out of the loop)
\* a failed publish parks the task until somebody retries for it
AfterPublishBlocksOnError(outcome) == IF outcome = "err" THEN "blocked" ELSE "sleeping"

AfterPublishStopsOnError(outcome) == IF outcome = "err" THEN "done" ELSE "sleeping"

\* what the task does after publish returned `outcome`: it always falls through to the sleep
AfterPublish(outcome) == "sleeping"

PubStart(p) ==
    /\ pubPc[p] = "ready"
    /\ start' = [start EXCEPT ![p] = now]
    /\ sequence' = [sequence EXCEPT ![p] = 0]
    /\ pubPc' = [pubPc EXCEPT ![p] = "running"]
    /\ UNCHANGED <<cfg, now, mainVars, messages_sent, messages_received, latency_tracker,
                   pubTopic, interval, pubWake, pubOutcome, lastMessage, attempts,
                   successes, subVars, stopElapsed, monVars>>

\* loop test, then the message is built and publish is called (the call is awaited)
PubTick(p) ==
    /\ \/ pubPc[p] = "running"
       \/ pubPc[p] = "sleeping" /\ pubWake[p] <= now
    /\ IF LoopContinues(start[p])
       THEN /\ lastMessage' = [lastMessage EXCEPT ![p] =
                                 [position |-> sequence[p], timestamp |-> sequence[p]]]
            /\ attempts' = [attempts EXCEPT ![p] = @ + 1]
            /\ \E o \in PublishOutcomes, l \in PublishLatencies :
                 /\ pubOutcome' = [pubOutcome EXCEPT ![p] = o]
                 /\ pubWake' = [pubWake EXCEPT ![p] = now + l]
            /\ pubPc' = [pubPc EXCEPT ![p] = "publishing"]
            /\ UNCHANGED stopElapsed
       ELSE /\ pubPc' = [pubPc EXCEPT ![p] = "done"]
            /\ stopElapsed' = [stopElapsed EXCEPT !.pub[p] = Elapsed(start[p])]
            /\ UNCHANGED <<lastMessage, attempts, pubOutcome, pubWake>>
    /\ UNCHANGED <<cfg, now, mainVars, messages_sent, messages_received, latency_tracker,
                   pubTopic, interval, start, sequence, successes, subVars, monVars>>

\* publish returned: counters on success, then sleep(interval)
PubPublished(p) ==
    /\ pubPc[p] = "publishing"
    /\ pubWake[p] <= now
    /\ messages_sent' = SentAfterPublish(pubOutcome[p], messages_sent)
    /\ sequence' = [sequence EXCEPT ![p] = SequenceAfterPublish(pubOutcome[p], @)]
    /\ successes' = [successes EXCEPT ![p] = IF pubOutcome[p] = "ok" THEN @ + 1 ELSE @]
    /\ pubPc' = [pubPc EXCEPT ![p] = AfterPublish(pubOutcome[p])]
    /\ pubWake' = [pubWake EXCEPT ![p] = now + interval[p]]
    /\ pubOutcome' = [pubOutcome EXCEPT ![p] = "none"]
    /\ UNCHANGED <<cfg, now, mainVars, messages_received, latency_tracker, pubTopic,
                   interval, start, lastMessage, attempts, subVars, stopElapsed, monVars>>

----------------------------------------------------------------------------
\* subscriber task

RandomDraws == 0..(DrawSteps - 1)

\* Duration::from_micros((1.0 + rand::random::<f64>() * 49.0) as u64), random = k/DrawSteps
LatencyFromRandom(k) == (LATENCY_BASE * DrawSteps + k * LATENCY_SPAN) \div DrawSteps

\* latency_tracker.record(lat)
RECURSIVE Record(_, _)
Record(samples, lat) ==
    IF samples = <<>> \/ lat <= Head(samples)
    THEN <<lat>> \o samples
    ELSE <<Head(samples)>> \o Record(Tail(samples), lat)

\* a receive counted only while a sent message is left to account for it
ReceivedAfterTickBoundedBySent(received) ==
    IF received < messages_sent THEN received + 1 ELSE received

\* the receive counter bumped twice per tick
ReceivedAfterTickTwice(received) == received + 2

\* messages_received.fetch_add(1, Ordering::Relaxed)
ReceivedAfterTick(received) == received + 1

SubStart(s) ==
    /\ subPc[s] = "ready"
    /\ subStart' = [subStart EXCEPT ![s] = now]
    /\ subPc' = [subPc EXCEPT ![s] = "running"]
    /\ UNCHANGED <<cfg, now, mainVars, messages_sent, messages_received, latency_tracker,
                   pubVars, subTopic, subWake, stopElapsed, monVars>>

SubReceive(s) ==
    /\ \/ subPc[s] = "running"
       \/ subPc[s] = "sleeping" /\ subWake[s] <= now
    /\ IF LoopContinues(subStart[s])
       THEN /\ messages_received' = ReceivedAfterTick(messages_received)
            /\ subPc' = [subPc EXCEPT ![s] = "recording"]
            /\ UNCHANGED stopElapsed
       ELSE /\ subPc' = [subPc EXCEPT ![s] = "done"]
            /\ stopElapsed' = [stopElapsed EXCEPT !.sub[s] = Elapsed(subStart[s])]
            /\ UNCHANGED messages_received
    /\ UNCHANGED <<cfg, now, mainVars, messages_sent, latency_tracker, pubVars, subTopic,
                   subStart, subWake, monVars>>

SubRecord(s) ==
    /\ subPc[s] = "recording"
    /\ \E k \in RandomDraws :
         latency_tracker' = Record(latency_tracker, LatencyFromRandom(k))
    /\ subWake' = [subWake EXCEPT ![s] = now + SUBSCRIBER_SLEEP_MICROS]
    /\ subPc' = [subPc EXCEPT ![s] = "sleeping"]
    /\ UNCHANGED <<cfg, now, mainVars, messages_sent, messages_received, pubVars,
                   subTopic, subStart, stopElapsed, monVars>>


----------------------------------------------------------------------------
\* progress monitor task

\* the monitor loop over the inclusive range 0..=(duration.as_secs() / 5)
MonitorTicksInclusive == ((cfg.duration \div MICROS_PER_SEC) \div MONITOR_PERIOD_SECS) + 1

\* for _ in 0..(duration.as_secs() / 5)
MonitorTicks == (cfg.duration \div MICROS_PER_SEC) \div MONITOR_PERIOD_SECS

\* the monitor reading messages_sent with swap(0) in place of load
SentAfterMonitorResets(sent) == 0

\* the monitor's accesses to the shared counters: loads only
SentAfterMonitor(sent) == sent
ReceivedAfterMonitor(received) == received

\* tokio::time::interval(Duration::from_secs(5)): the first tick completes at once,
\* the following ones one period after the previous deadline
FirstTickAt(created) == created
NextTickAt(deadline) == deadline + Secs(MONITOR_PERIOD_SECS)

MonStart ==
    /\ monPc = "ready"
    /\ last_sent' = 0
    /\ last_received' = 0
    /\ monNext' = FirstTickAt(now)
    /\ monPc' = IF MonitorTicks > 0 THEN "waiting" ELSE "done"
    /\ UNCHANGED <<cfg, now, mainVars, messages_sent, messages_received, latency_tracker,
                   pubVars, subVars, stopElapsed, monTicks, monSent, progress>>

\* interval.tick().await returned; messages_sent_mon.load(Ordering::Relaxed)
MonTick ==
    /\ monPc = "waiting"
    /\ monNext <= now
    /\ monSent' = messages_sent
    /\ messages_sent' = SentAfterMonitor(messages_sent)
    /\ monPc' = "loaded"
    /\ UNCHANGED <<cfg, now, mainVars, messages_received, latency_tracker, pubVars,
                   subVars, stopElapsed, monNext, monTicks, last_sent, last_received,
                   progress>>

\* messages_received_mon.load, the two rates (numerators of x / 5.0), println!, last_*
MonReport ==
    /\ monPc = "loaded"
    /\ LET received == messages_received IN
        /\ progress' = Append(progress,
                          [at |-> now, sent |-> monSent, sent_delta |-> monSent - last_sent,
                           received |-> received,
                           received_delta |-> received - last_received])
        /\ last_sent' = monSent
        /\ last_received' = received
    /\ messages_received' = ReceivedAfterMonitor(messages_received)
    /\ monTicks' = monTicks + 1
    /\ monNext' = NextTickAt(monNext)
    /\ monPc' = IF monTicks + 1 < MonitorTicks THEN "waiting" ELSE "done"
    /\ UNCHANGED <<cfg, now, mainVars, messages_sent, latency_tracker, pubVars, subVars,
                   stopElapsed, monSent>>

----------------------------------------------------------------------------
\* latency statistics (ros3_rt::latency::LatencyTracker::stats), nearest rank

CeilDiv(a, b) == (a + b - 1) \div b

\* the sample at rank ceil(q * n), q = num / den, of the sorted samples; 0 when empty
NearestRank(samples, num, den) ==
    IF samples = <<>> THEN 0
    ELSE samples[CeilDiv(num * Len(samples), den)]

LatencyStats(samples) ==
    [p50 |-> NearestRank(samples, 50, 100),
     p99 |-> NearestRank(samples, 99, 100),
     p999 |-> NearestRank(samples, 999, 1000),
     max |-> IF samples = <<>> THEN 0 ELSE samples[Len(samples)],
     sample_count |-> Len(samples)]

----------------------------------------------------------------------------
\* run_stress_test: joins and the result record

\* the publisher handles not awaited
PublishersJoinedNoWait == TRUE

\* for handle in publisher_handles { handle.await.ok(); }
PublishersJoined == \A p \in Publishers : pubPc[p] = "done"

\* for handle in subscriber_handles { handle.await.ok(); }
SubscribersJoined == \A s \in Subscribers : subPc[s] = "done"

\* monitor_handle.await.ok()
MonitorJoined == monPc = "done"

\* the elapsed time truncated to whole seconds before the f64 division
ThroughputWholeSeconds(total_sent, elapsed) ==
    IF elapsed \div MICROS_PER_SEC = 0
    THEN IF total_sent = 0 THEN [kind |-> "NaN"] ELSE [kind |-> "inf"]
    ELSE [kind |-> "finite", num |-> total_sent, den |-> elapsed \div MICROS_PER_SEC]

\* total_sent as f64 / elapsed.as_secs_f64(): an f64 division, never an error;
\* a finite quotient is kept as the fraction num / den (messages per second)
Throughput(total_sent, elapsed) ==
    IF elapsed = 0
    THEN IF total_sent = 0 THEN [kind |-> "NaN"] ELSE [kind |-> "inf"]
    ELSE [kind |-> "finite", num |-> total_sent * MICROS_PER_SEC, den |-> elapsed]

\* latency_stats.p99 as f64 * 0.95, in hundredths of a microsecond
LatencyP95(stats) == stats.p99 * P95_FACTOR_PERCENT

\* StressTestResults { .. }: the latency fields are in hundredths of a microsecond,
\* duration_secs is kept in microseconds; the two simulated resource fields
\* (random numbers, read by no computation) are left out
MakeResults(total_sent, elapsed, stats) ==
    [kind |-> "results",
     total_messages |-> total_sent,
     duration_secs |-> elapsed,
     throughput |-> Throughput(total_sent, elapsed),
     latency_p50 |-> stats.p50 * 100,
     latency_p95 |-> LatencyP95(stats),
     latency_p99 |-> stats.p99 * 100,
     latency_p999 |-> stats.p999 * 100,
     latency_max |-> stats.max * 100]

JoinPublishers ==
    /\ mainPc = "join_publishers"
    /\ PublishersJoined
    /\ mainPc' = "join_subscribers"
    /\ UNCHANGED <<cfg, now, serializer, start_time, joinedAt, results, messages_sent,
                   messages_received, latency_tracker, pubVars, subVars, stopElapsed,
                   monVars>>

JoinSubscribers ==
    /\ mainPc = "join_subscribers"
    /\ SubscribersJoined
    /\ mainPc' = "join_monitor"
    /\ joinedAt' = [joinedAt EXCEPT !.workers = now]
    /\ UNCHANGED <<cfg, now, serializer, start_time, results, messages_sent,
                   messages_received, latency_tracker, pubVars, subVars, stopElapsed,
                   monVars>>

\* the monotonic clock moves while main runs its own statements: by the time main
\* reads start_time.elapsed() it is later than when the last handle completed
Overheads == 1..MaxOverhead

JoinMonitor ==
    /\ mainPc = "join_monitor"
    /\ MonitorJoined
    /\ mainPc' = "aggregate"
    /\ joinedAt' = [joinedAt EXCEPT !.monitor = now]
    /\ \E ov \in Overheads : now' = now + ov
    /\ UNCHANGED <<cfg, serializer, start_time, results, messages_sent,
                   messages_received, latency_tracker, pubVars, subVars, stopElapsed,
                   monVars>>

\* elapsed, total_sent, latency_stats, StressTestResults { .. }
Aggregate ==
    /\ mainPc = "aggregate"
    /\ LET elapsed == Elapsed(start_time)
           total_sent == messages_sent
           latency_stats == LatencyStats(latency_tracker)
       IN results' = MakeResults(total_sent, elapsed, latency_stats)
    /\ mainPc' = "done"
    /\ UNCHANGED <<cfg, now, serializer, start_time, joinedAt, messages_sent,
                   messages_received, latency_tracker, pubVars, subVars, stopElapsed,
                   monVars>>

----------------------------------------------------------------------------
\* the clock

MainRunnable ==
    \/ mainPc \in {"main", "spawn", "aggregate"}
    \/ mainPc = "join_publishers" /\ PublishersJoined
    \/ mainPc = "join_subscribers" /\ SubscribersJoined
    \/ mainPc = "join_monitor" /\ MonitorJoined

PubRunnable(p) ==
    \/ pubPc[p] \in {"ready", "running"}
    \/ pubPc[p] \in {"sleeping", "publishing"} /\ pubWake[p] <= now

SubRunnable(s) ==
    \/ subPc[s] \in {"ready", "running", "recording"}
    \/ subPc[s] = "sleeping" /\ subWake[s] <= now

MonRunnable ==
    \/ monPc \in {"ready", "loaded"}
    \/ monPc = "waiting" /\ monNext <= now

WakeTimes ==
    {pubWake[p] : p \in {q \in Publishers : pubPc[q] \in {"sleeping", "publishing"}}}
    \cup {subWake[s] : s \in {q \in Subscribers : subPc[q] = "sleeping"}}
    \cup (IF monPc = "waiting" THEN {monNext} ELSE {})

\* every task is suspended: the clock moves to the earliest wake-up time
Advance ==
    /\ mainPc \notin {"panicked", "done"}
    /\ ~MainRunnable
    /\ \A p \in Publishers : ~PubRunnable(p)
    /\ \A s \in Subscribers : ~SubRunnable(s)
    /\ ~MonRunnable
    /\ WakeTimes # {}
    /\ now' = Min(WakeTimes)
    /\ UNCHANGED <<cfg, mainVars, messages_sent, messages_received, latency_tracker,
                   pubVars, subVars, stopElapsed, monVars>>

----------------------------------------------------------------------------
Next ==
    \/ Main
    \/ SpawnPublisher
    \/ SpawnSubscriber
    \/ SpawnMonitor
    \/ \E p \in Publishers : PubStart(p)
    \/ \E p \in Publishers : PubTick(p)
    \/ \E p \in Publishers : PubPublished(p)
    \/ \E s \in Subscribers : SubStart(s)
    \/ \E s \in Subscribers : SubReceive(s)
    \/ \E s \in Subscribers : SubRecord(s)
    \/ MonStart
    \/ MonTick
    \/ MonReport
    \/ JoinPublishers
    \/ JoinSubscribers
    \/ JoinMonitor
    \/ Aggregate
    \/ Advance

Spec == Init /\ [][Next]_vars

\* The tokio runtime runs every task that is ready and its timer fires every sleep
\* that is due: some step is taken whenever one is possible.
FairSpec == Spec /\ WF_vars(Next)


----------------------------------------------------------------------------
\* The result construction (lines 239-260) as a function of its three inputs:
\* total_sent, elapsed and the recorded samples are drawn from bounded sets, main
\* stands at the read of start_time.elapsed() with every task finished.

MaxTotal == 3
MaxSamples == 3

ElapsedInputs == {0, 1, MICROS_PER_SEC \div 2, MICROS_PER_SEC, 2 * MICROS_PER_SEC}

RECURSIVE SortedSamples(_)
SortedSamples(n) ==
    IF n = 0 THEN {<<>>}
    ELSE SortedSamples(n - 1) \cup
         {Record(q, LatencyFromRandom(k)) : q \in SortedSamples(n - 1), k \in RandomDraws}

InitResults ==
    /\ cfg = [publishers |-> 1, subscribers |-> 1, rate |-> 1000, duration |-> 0,
              message_size |-> "small", format |-> "cdr"]
    /\ start_time = 0
    /\ now \in ElapsedInputs
    /\ messages_sent \in 0..MaxTotal
    /\ latency_tracker \in SortedSamples(MaxSamples)
    /\ messages_received = Len(latency_tracker)
    /\ mainPc = "aggregate"
    /\ serializer = SelectSerializer(cfg.format)
    /\ pubPc = [p \in Publishers |-> "done"]
    /\ pubTopic = [p \in Publishers |-> Topic(p)]
    /\ interval = [p \in Publishers |-> Interval(cfg.rate)]
    /\ start = [p \in Publishers |-> 0]
    /\ sequence = [p \in Publishers |-> messages_sent]
    /\ pubWake = [p \in Publishers |-> 0]
    /\ pubOutcome = [p \in Publishers |-> "none"]
    /\ lastMessage = [p \in Publishers |-> <<>>]
    /\ attempts = [p \in Publishers |-> messages_sent]
    /\ successes = [p \in Publishers |-> messages_sent]
    /\ subPc = [s \in Subscribers |-> "done"]
    /\ subTopic = [s \in Subscribers |-> Topic(s)]
    /\ subStart = [s \in Subscribers |-> 0]
    /\ subWake = [s \in Subscribers |-> 0]
    /\ stopElapsed = [pub |-> [p \in Publishers |-> now],
                      sub |-> [s \in Subscribers |-> now]]
    /\ monPc = "done"
    /\ monNext = 0
    /\ monTicks = 0
    /\ last_sent = 0
    /\ last_received = 0
    /\ monSent = 0
    /\ progress = <<>>
    /\ joinedAt = [workers |-> now, monitor |-> now]
    /\ results = NoResults

NextResults == Aggregate

SpecResults == InitResults /\ [][NextResults]_vars


----------------------------------------------------------------------------
\* Properties

AllPublishersDone == \A p \in Publishers : pubPc[p] = "done"
AllSubscribersDone == \A s \in Subscribers : subPc[s] = "done"
HasResults == results.kind = "results"

\* the sum of f over S
RECURSIVE SumOver(_, _)
SumOver(f, S) ==
    IF S = {} THEN 0
    ELSE LET x == CHOOSE y \in S : TRUE IN f[x] + SumOver(f, S \ {x})

\* publisher p's awaited publish call returns in this step
PublishReturns(p) == pubPc[p] = "publishing" /\ pubPc'[p] # "publishing"

\* one step: sequence and messages_sent grow by 1 exactly with a publish returning Ok
C1_Step ==
    /\ \A p \in Publishers :
         sequence'[p] = IF PublishReturns(p) /\ pubOutcome[p] = "ok"
                        THEN sequence[p] + 1 ELSE sequence[p]
    /\ messages_sent' = messages_sent +
         Cardinality({p \in Publishers : PublishReturns(p) /\ pubOutcome[p] = "ok"})
\* after the last publisher finished
C1_Final ==
    AllPublishersDone =>
        /\ messages_sent = SumOver(successes, Publishers)
        /\ messages_sent = SumOver(sequence, Publishers)
\* C1: a publish that returns Ok adds exactly 1 to messages_sent and to the worker's
\* sequence, a publish that returns Err (and every other step) changes neither; once
\* all publishers have finished, messages_sent is the number of successful publish
\* calls and the sum of the publishers' sequence counters.
C1_PublisherCounters == [][C1_Step]_vars /\ []C1_Final
\* two publishers finished, each with successful and failed publish calls
C1_Witness ==
    /\ cfg.publishers = 2
    /\ AllPublishersDone
    /\ \A p \in Publishers : successes[p] > 0 /\ attempts[p] > successes[p]

\* C2: whenever at least one sample was recorded, the reported percentiles are
\* ordered: p50 <= p95 <= p99 <= p99.9 <= max.
C2_PercentileOrdering ==
    (HasResults /\ LatencyStats(latency_tracker).sample_count > 0) =>
        /\ results.latency_p50 <= results.latency_p95
        /\ results.latency_p95 <= results.latency_p99
        /\ results.latency_p99 <= results.latency_p999
        /\ results.latency_p999 <= results.latency_max

ThroughputIsZero(t) == t.kind = "finite" /\ t.num = 0
\* C3: throughput is total_messages divided by the elapsed seconds, and is 0 when the
\* elapsed time is zero.
C3_Throughput ==
    HasResults =>
        IF results.duration_secs = 0
        THEN ThroughputIsZero(results.throughput)
        ELSE /\ results.throughput.kind = "finite"
             /\ results.throughput.num * results.duration_secs
                  = results.total_messages * MICROS_PER_SEC * results.throughput.den

\* the record exists only with every task finished, and holds the final values
C4_State ==
    HasResults =>
        /\ AllPublishersDone /\ AllSubscribersDone /\ monPc = "done"
        /\ results.total_messages = messages_sent
        /\ results = MakeResults(messages_sent, results.duration_secs,
                                 LatencyStats(latency_tracker))
\* once the record exists, neither it nor the counters nor the samples change
C4_Step ==
    HasResults =>
        /\ results' = results
        /\ messages_sent' = messages_sent
        /\ messages_received' = messages_received
        /\ latency_tracker' = latency_tracker
\* C4: the result record is assembled once, after every publisher, every subscriber
\* and the monitor have completed; afterwards no counter and no sample changes, and
\* total_messages is the final messages_sent.
C4_AggregatedOnceAtEnd == []C4_State /\ [][C4_Step]_vars
\* a record of a run with publishers and subscribers, messages sent, samples recorded
C4_Witness ==
    /\ HasResults
    /\ cfg.publishers > 0 /\ cfg.subscribers > 0
    /\ results.total_messages > 0 /\ results.latency_max > 0

C5_Step ==
    /\ messages_sent' >= messages_sent
    /\ messages_received' >= messages_received
    /\ messages_sent' # messages_sent => \E p \in Publishers : PubPublished(p)
    /\ messages_received' # messages_received => \E s \in Subscribers : SubReceive(s)
\* C5: messages_sent and messages_received never decrease; only a publisher's step
\* changes messages_sent, only a subscriber's step changes messages_received (not the
\* monitor, not the aggregator).
C5_CountersMonotonic == [][C5_Step]_vars
\* the monitor has read a growing, non-zero messages_sent twice and the record exists
C5_Witness ==
    /\ HasResults
    /\ Len(progress) >= 2
    /\ progress[1].sent > 0
    /\ progress[2].sent > progress[1].sent

\* a finished run of one publisher, R >= 1 Hz, D >= 1 whole seconds, every publish Ok
C6_Case ==
    /\ mainPc = "done"
    /\ cfg.publishers = 1
    /\ cfg.rate >= 1
    /\ cfg.duration >= MICROS_PER_SEC /\ cfg.duration % MICROS_PER_SEC = 0
    /\ attempts[0] = successes[0]
C6_DR == (cfg.duration \div MICROS_PER_SEC) * cfg.rate
\* C6 as stated: one publisher, every publish Ok, R >= 1 Hz, D >= 1 seconds: the
\* final messages_sent lies in [floor(D*R) * 0.9, floor(D*R) * 1.1].
C6_RateTolerance ==
    C6_Case => /\ 10 * messages_sent >= 9 * C6_DR
               /\ 10 * messages_sent <= 11 * C6_DR
\* C6 amended: in the same case, with 1 <= R <= 1_000_000, the final messages_sent
\* is at least 1 and at most ceil(D * 1_000_000 / floor(1_000_000 / R)).
C6_TickBound ==
    (C6_Case /\ cfg.rate <= MICROS_PER_SEC) =>
        /\ messages_sent >= 1
        /\ messages_sent <= CeilDiv(cfg.duration, MICROS_PER_SEC \div cfg.rate)
\* R = 3, D = 1: four ticks (at 0, 333333, 666666, 999999 us), above 3 * 1.1
C6_Witness ==
    /\ C6_Case
    /\ cfg.rate = 3 /\ cfg.duration = MICROS_PER_SEC
    /\ messages_sent = 4

C7_Step ==
    (MonStart \/ MonTick \/ MonReport) =>
        UNCHANGED <<messages_sent, messages_received, latency_tracker, mainVars,
                    pubVars, subVars>>
\* C7: every step of the monitor leaves messages_sent, messages_received and the
\* latency tracker (and every other task's state) unchanged; it writes only its own
\* locals.
C7_MonitorReadsOnly == [][C7_Step]_vars
\* the monitor's second tick saw messages_sent grow and stored it in last_sent
C7_Witness ==
    /\ Len(progress) >= 2
    /\ progress[2].sent_delta > 0
    /\ last_sent = progress[2].sent

\* the record of the same run without the monitor: the elapsed time is read when the
\* last worker handle has completed, not when the monitor handle has
ResultsWithoutMonitor ==
    MakeResults(messages_sent,
                results.duration_secs - (joinedAt.monitor - joinedAt.workers),
                LatencyStats(latency_tracker))
\* C8: the result record equals the one the run yields without the monitor.
C8_MonitorAbsence == HasResults => results = ResultsWithoutMonitor

ValidConfig ==
    /\ cfg.rate > 0
    /\ cfg.message_size \in {"small", "medium", "large"}
    /\ cfg.format \in {"cdr", "json"}
\* C9: with an invalid configuration value (rate 0, unknown message size, unknown
\* format) no publisher, subscriber or monitor task is ever started and no result
\* is produced.
C9_InvalidConfigFatal ==
    ~ValidConfig =>
        /\ \A p \in Publishers : pubPc[p] = "unspawned"
        /\ \A s \in Subscribers : subPc[s] = "unspawned"
        /\ monPc = "unspawned"
        /\ ~HasResults

C10_Step ==
    \A p \in Publishers :
        /\ attempts'[p] # attempts[p] =>
             /\ attempts'[p] = attempts[p] + 1
             /\ pubPc[p] \in {"running", "sleeping"}
             /\ pubPc'[p] = "publishing"
        /\ PublishReturns(p) =>
             /\ pubPc'[p] = "sleeping"
             /\ pubWake'[p] = now + interval[p]
             /\ attempts'[p] = attempts[p]
        /\ (PublishReturns(p) /\ pubOutcome[p] = "err") =>
             /\ \A q \in Publishers \ {p} : pubPc'[q] = pubPc[q]
             /\ subPc' = subPc /\ monPc' = monPc /\ mainPc' = mainPc
C10_State ==
    \A p \in Publishers : pubPc[p] = "done" => stopElapsed.pub[p] >= cfg.duration
\* C10: a tick makes one publish attempt and then suspends for the tick interval; a
\* failed attempt stops neither the worker nor any other task, and a worker leaves its
\* loop only when its local elapsed time has reached the duration.
C10_FailureNotFatal == [][C10_Step]_vars /\ []C10_State
\* a publisher that finished after at least two attempts, all of them failed
C10_Witness ==
    \E p \in Publishers :
        /\ pubPc[p] = "done"
        /\ attempts[p] >= 2
        /\ successes[p] = 0


\* publisher p builds a message in this step (the start of a tick)
BuildsMessage(p) == attempts'[p] = attempts[p] + 1

\* C11 as stated: the message built on a tick carries a sequence number strictly
\* greater than the message built on the previous tick of the same publisher.
C11_StrictlyIncreasing ==
    [][\A p \in Publishers :
         (BuildsMessage(p) /\ lastMessage[p] # <<>>) =>
             lastMessage'[p].timestamp > lastMessage[p].timestamp]_vars
C11_Step ==
    \A p \in Publishers :
        BuildsMessage(p) =>
            /\ lastMessage'[p].timestamp = successes[p]
            /\ lastMessage'[p].position = lastMessage'[p].timestamp
            /\ lastMessage[p] # <<>> =>
                 /\ lastMessage'[p].timestamp >= lastMessage[p].timestamp
                 /\ lastMessage'[p].timestamp <= lastMessage[p].timestamp + 1
\* C11 amended: the message built on a tick carries the number of the publisher's
\* earlier successful publish calls: it is the previous tick's number plus 1 when the
\* previous publish succeeded and the same number again when it failed, so the
\* numbers never decrease.
C11_SequenceCountsSuccesses == [][C11_Step]_vars
\* a third message, built after one success and one failure, carries number 1
C11_Witness ==
    \E p \in Publishers :
        /\ pubPc[p] = "publishing"
        /\ attempts[p] = 3
        /\ successes[p] = 1
        /\ lastMessage[p].timestamp = 1


\* the configuration gets past the spawn loop (line 146 divides by the rate)
Spawnable == cfg.rate > 0 \/ cfg.publishers = 0

Finished ==
    /\ AllPublishersDone
    /\ AllSubscribersDone
    /\ monPc = "done"
    /\ HasResults

\* C12: when time advances and every publish call returns, every publisher and every
\* subscriber leaves its loop, the monitor finishes and the orchestrator produces the
\* result record.
C12_Terminates == Spawnable ~> Finished
\* a run with both kinds of worker and a failed publish has produced its record
C12_Witness ==
    /\ Finished
    /\ cfg.publishers > 0
    /\ cfg.subscribers > 0
    /\ \E p \in Publishers : attempts[p] > successes[p]


\* the run of C13: no publishers, no subscribers, one second
ZeroWorkerRun ==
    /\ cfg.publishers = 0
    /\ cfg.subscribers = 0
    /\ cfg.duration = Secs(1)

\* C13: a run with 0 publishers, 0 subscribers and duration 1 s does not fail, and
\* its result record has total_messages = 0 and throughput = 0.
C13_ZeroWorkers ==
    ZeroWorkerRun =>
        /\ mainPc # "panicked"
        /\ messages_sent = 0
        /\ HasResults =>
             /\ results.total_messages = 0
             /\ ThroughputIsZero(results.throughput)
\* the zero-worker run has returned its record
C13_Witness == ZeroWorkerRun /\ mainPc = "done" /\ HasResults


SpawnedPublishers == {p \in Publishers : pubPc[p] # "unspawned"}
SpawnedSubscribers == {q \in Subscribers : subPc[q] # "unspawned"}
\* the topic names handed out so far, by kind of worker and index
SpawnedTopics ==
    { <<"pub", p, pubTopic[p]>> : p \in SpawnedPublishers }
    \cup { <<"sub", q, subTopic[q]>> : q \in SpawnedSubscribers }

\* C14: the worker with index i gets the topic "stress_topic_" followed by i mod 10,
\* publishers and subscribers alike, so two workers share a topic exactly when their
\* indices are congruent modulo 10.
C14_TopicAssignment ==
    /\ \A w \in SpawnedTopics :
         w[3] = <<"stress_topic_", DecimalDigits[(w[2] % 10) + 1]>>
    /\ \A v, w \in SpawnedTopics :
         (v[3] = w[3]) <=> (v[2] % 10 = w[2] % 10)
\* publisher 11 and subscriber 11 share the topic of publisher 1, which publisher 10
\* does not
C14_Witness ==
    /\ 11 \in SpawnedPublishers
    /\ 11 \in SpawnedSubscribers
    /\ pubTopic[11] = pubTopic[1]
    /\ subTopic[11] = pubTopic[1]
    /\ pubTopic[10] # pubTopic[1]


\* floor(duration / 5 s)
WholePeriods == cfg.duration \div Secs(MONITOR_PERIOD_SECS)

\* C15: the monitor emits exactly floor(duration / 5 s) progress lines and then stops;
\* it emits none when the duration is below 5 s.
C15_ProgressLines ==
    /\ Len(progress) <= WholePeriods
    /\ monPc = "done" => Len(progress) = WholePeriods
    /\ cfg.duration < Secs(MONITOR_PERIOD_SECS) => progress = <<>>
    /\ HasResults => monPc = "done"
\* a 10 s run has ended with its two progress lines
C15_Witness ==
    /\ cfg.duration = Secs(10)
    /\ HasResults
    /\ monPc = "done"
    /\ Len(progress) = 2


\* when the monitor created its interval: the first deadline, periods counted back
MonitorStarted == monNext - monTicks * Secs(MONITOR_PERIOD_SECS)
\* the reference point of progress line k: the previous line, or the monitor's start
ReferencePoint(k) == IF k = 1 THEN MonitorStarted ELSE progress[k - 1].at
\* delta / 5 s is the rate over the period: delta / 5 s = delta / period, period > 0
IsRateOver(delta, period) ==
    /\ period > 0
    /\ delta * period = delta * Secs(MONITOR_PERIOD_SECS)

\* C16: on every monitor tick, the first included, the delta divided by 5 is the
\* growth of the counter over the period actually elapsed since the previous tick (or
\* since the monitor started) divided by that period.
C16_TrueIntervalRate ==
    \A k \in 1..Len(progress) :
        LET period == progress[k].at - ReferencePoint(k) IN
            /\ IsRateOver(progress[k].sent_delta, period)
            /\ IsRateOver(progress[k].received_delta, period)
\* the first line reports a message sent before any time has passed
C16_Witness ==
    /\ Len(progress) >= 1
    /\ progress[1].at = MonitorStarted
    /\ progress[1].sent_delta > 0


\* the subscribers between their fetch_add and their record
Recording == {q \in Subscribers : subPc[q] = "recording"}

\* C17: the samples recorded so far are at most messages_received and at least
\* messages_received - M for M subscribers (one outstanding sample per subscriber
\* that has counted its tick and not yet recorded); once all subscribers have
\* finished, the snapshot's sample_count equals messages_received.
C17_SamplesTrackReceived ==
    /\ Len(latency_tracker) <= messages_received
    /\ Len(latency_tracker) >= messages_received - cfg.subscribers
    /\ messages_received - Len(latency_tracker) = Cardinality(Recording)
    /\ AllSubscribersDone =>
         LatencyStats(latency_tracker).sample_count = messages_received
\* two subscribers have both counted a tick whose sample is not recorded yet
C17_Witness ==
    /\ cfg.subscribers = 2
    /\ Cardinality(Recording) = 2
    /\ Len(latency_tracker) = messages_received - 2
    /\ Len(latency_tracker) > 0


\* the ticks of one subscriber: one per millisecond while elapsed < duration
SubscriberTicks ==
    (cfg.duration + SUBSCRIBER_SLEEP_MICROS - 1) \div SUBSCRIBER_SLEEP_MICROS

\* what the subscribers write
SubscriberOutput == <<messages_received, latency_tracker, subVars, stopElapsed.sub>>

\* a step of some publisher task
PublisherStep == \E p \in Publishers : pubPc'[p] # pubPc[p]

\* C18: the subscribers' final messages_received and number of recorded samples are
\* fixed by the configuration alone, whatever the publish calls return, and no
\* publisher step changes anything a subscriber writes; so two runs that differ
\* only in the publish outcomes end with the same subscriber output, and
\* messages_received is not bounded by messages_sent.
C18_SubscribersIndependent ==
    /\ [](/\ messages_received <= cfg.subscribers * SubscriberTicks
          /\ AllSubscribersDone =>
               /\ messages_received = cfg.subscribers * SubscriberTicks
               /\ Len(latency_tracker) = cfg.subscribers * SubscriberTicks)
    /\ [][PublisherStep => UNCHANGED SubscriberOutput]_vars
\* every publish failed, and the subscribers still counted all their ticks
C18_Witness ==
    /\ AllSubscribersDone
    /\ AllPublishersDone
    /\ cfg.publishers > 0
    /\ \E p \in Publishers : attempts[p] > 0
    /\ messages_sent = 0
    /\ messages_received > messages_sent


\* the finished workers, each with its tick interval and its local stop time
StoppedWorkers ==
    { [tick |-> interval[p], stop |-> stopElapsed.pub[p]] :
        p \in {w \in Publishers : pubPc[w] = "done"} }
    \cup { [tick |-> SUBSCRIBER_SLEEP_MICROS, stop |-> stopElapsed.sub[q]] :
             q \in {w \in Subscribers : subPc[w] = "done"} }

\* subscriber q counts a tick in this step
CountsTick(q) == subPc[q] # "recording" /\ subPc'[q] = "recording"

\* the longest time a publish call takes
LongestPublish == CHOOSE l \in PublishLatencies : \A m \in PublishLatencies : m <= l

\* C19 as stated (its conclusion): the local stop times of two workers with the same
\* tick interval differ by at most one tick interval.
C19_StopWithinOneInterval ==
    \A v, w \in StoppedWorkers :
        v.tick = w.tick => v.stop - w.stop <= v.tick
\* C19 amended: no worker begins a tick once its local elapsed time has reached the
\* duration, and every worker's local stop time is at least the duration and less
\* than the duration plus one tick, a publisher's tick being one publish call plus
\* one suspend interval and a subscriber's 1 ms; two stop times differ by less than
\* one such tick, which is longer than the tick interval by the publish time.
C19_StopWithinOneTick ==
    /\ [][/\ \A p \in Publishers :
               BuildsMessage(p) => Elapsed(start[p]) < cfg.duration
          /\ \A q \in Subscribers :
               CountsTick(q) => Elapsed(subStart[q]) < cfg.duration]_vars
    /\ [](/\ \A p \in Publishers :
               pubPc[p] = "done" =>
                   /\ stopElapsed.pub[p] >= cfg.duration
                   /\ stopElapsed.pub[p] < cfg.duration + LongestPublish + interval[p]
          /\ \A q \in Subscribers :
               subPc[q] = "done" =>
                   /\ stopElapsed.sub[q] >= cfg.duration
                   /\ stopElapsed.sub[q] < cfg.duration + SUBSCRIBER_SLEEP_MICROS)
\* two finished publishers with the same interval stopped more than one interval apart
C19_Witness ==
    \E p, r \in Publishers :
        /\ pubPc[p] = "done"
        /\ pubPc[r] = "done"
        /\ interval[p] = interval[r]
        /\ stopElapsed.pub[p] - stopElapsed.pub[r] > interval[p]


====
